---------------------------- MODULE Spec2Model ----------------------------
(***************************************************************************)
(* A model of rez's build_process_ module: the create_build_process        *)
(* factory, BuildProcess.__init__ and the BuildProcessHelper operations    *)
(* (visit_variants, get_package_install_path, create_build_context and the *)
(* verbosity-gated print helpers).                                         *)
(*                                                                         *)
(* Python strings are sequences of one-character strings, so that          *)
(* os.path.join, "%" formatting and "in" on strings are computed, not      *)
(* assumed.  Optional values are sequences of length at most one: None is  *)
(* <<>> and a present value x is <<x>>.                                     *)
(***************************************************************************)
EXTENDS Integers, Sequences, FiniteSets, TLC

VARIABLES
    proc,       \* the BuildProcess under construction or constructed: <<>> or <<fields>>
    built,      \* TRUE once a constructor call has returned the object
    op,         \* the most recent call: its name and arguments
    raised,     \* the exception the most recent call raised (None if it returned)
    ret,        \* the value the most recent call returned (None if it raised)
    events,     \* the collaborator calls the most recent call made, in order
    stdout,     \* the lines the most recent call printed on the console
    fs,         \* the files written by context.save: path -> context
    frame,      \* the create_build_context call in progress: <<>> or <<locals>>
    threads     \* per worker thread, the create_build_context call it makes: <<>>
                \* before the call, then <<locals and outcome>>

vars == <<proc, built, op, raised, ret, events, stdout, fs, frame, threads>>

-----------------------------------------------------------------------------
(* Bounds of the model *)

\* the largest number of variants a package on disk declares
MaxVariants == 3
\* the longest list of requested variant indices
MaxRequested == 2

-----------------------------------------------------------------------------
(* Python values *)

None == <<>>
Some(x) == <<x>>
Get(o) == o[1]

\* the elements of a list, as a set
Elems(s) == {s[i] : i \in DOMAIN s}

\* s.startswith(p)
StartsWith(s, p) == Len(s) >= Len(p) /\ SubSeq(s, 1, Len(p)) = p

\* s.endswith(p)
EndsWith(s, p) == Len(s) >= Len(p) /\ SubSeq(s, Len(s) - Len(p) + 1, Len(s)) = p

\* "a in b" on strings: a is a substring of b
StrIn(a, b) == \E i \in 0..(Len(b) - Len(a)) : SubSeq(b, i + 1, i + Len(a)) = a

\* sep.join(parts)
RECURSIVE StrJoin(_, _)
StrJoin(sep, parts) ==
    IF parts = <<>> THEN <<>>
    ELSE IF Len(parts) = 1 THEN parts[1]
    ELSE parts[1] \o sep \o StrJoin(sep, Tail(parts))

Digits == <<"0", "1", "2", "3", "4", "5", "6", "7", "8", "9">>

\* str(n) and "%d" % n for a natural number
RECURSIVE IntStr(_)
IntStr(n) == IF n < 10 THEN <<Digits[n + 1]>> ELSE IntStr(n \div 10) \o <<Digits[(n % 10) + 1]>>

\* txt % args for the conversions %s and %d, the arguments already strings
RECURSIVE Format(_, _)
Format(txt, args) ==
    IF txt = <<>> THEN <<>>
    ELSE IF Len(txt) >= 2 /\ txt[1] = "%" /\ txt[2] \in {"s", "d"} /\ args # <<>>
         THEN args[1] \o Format(SubSeq(txt, 3, Len(txt)), Tail(args))
    ELSE <<txt[1]>> \o Format(Tail(txt), args)

\* c * n for a one-character string c
Repeat(c, n) == [i \in 1..n |-> c]

\* sorted(S) for a set of integers
RECURSIVE Sorted(_)
Sorted(S) ==
    IF S = {} THEN <<>>
    ELSE LET m == CHOOSE x \in S : \A y \in S : x <= y
         IN <<m>> \o Sorted(S \ {m})

\* os.path.join(a, b) on a POSIX system
PathJoin(a, b) ==
    IF StartsWith(b, <<"/">>) THEN b
    ELSE IF a = <<>> \/ EndsWith(a, <<"/">>) THEN a \o b
    ELSE a \o <<"/">> \o b

-----------------------------------------------------------------------------
(* The module's namespace and the raise statement *)

\* the names bound at module level: the imports and the module's own definitions
ModuleGlobals ==
    {"get_developer_package", "BuildProcessError", "BuildContextResolveError",
     "ResolvedContext", "create_release_hooks", "ResolverStatus", "config", "Enum",
     "os", "get_build_process_types", "create_build_process", "BuildType",
     "BuildProcess", "BuildProcessHelper"}

\* raise <name>(<info>): the name is looked up before the exception is built, and a
\* name that is not bound raises NameError instead
Raise(name, info) ==
    IF name \in ModuleGlobals
    THEN Some([kind |-> name, info |-> info])
    ELSE Some([kind |-> "NameError", info |-> name])

Event(name, arg) == [ev |-> name, arg |-> arg]

\* the calls of collaborator `name` among the events es, in order
CallsOf(es, name) == SelectSeq(es, LAMBDA e : e.ev = name)

-----------------------------------------------------------------------------
(* The collaborators: plugin manager, package loader, release hooks *)

S_local == <<"l","o","c","a","l">>
S_remote == <<"r","e","m","o","t","e">>
S_loc == <<"l","o","c">>
S_bogus == <<"b","o","g","u","s">>
S_empty == <<>>

\* plugin_manager.get_plugins('build_process'): the registered build process names
get_build_process_types == {S_local, S_remote}

\* the process_type arguments the model passes to the factory
ProcessTypeInputs == {S_local, S_remote, S_loc, S_bogus, S_empty}

\* plugin_manager.get_plugin_class('build_process', name): the class registered under
\* the name, or a plugin error
get_plugin_class(name) ==
    IF name \in get_build_process_types
    THEN [cls |-> Some(name), raised |-> None]
    ELSE [cls |-> None, raised |-> Some([kind |-> "RezPluginError", info |-> name])]

Dir_w == <<"/","w">>
Dir_v == <<"/","v">>
WorkingDirs == {Dir_w, Dir_v}

S_build == <<"b","u","i","l","d">>
Path_local == <<"/","l">>
Path_release == <<"/","r">>

\* package.config of a developer package
PackageConfig(working_dir) ==
    [release_hooks |-> IF working_dir = Dir_w THEN Some(<< <<"h">> >>) ELSE None,
     build_directory |-> S_build,
     packages_path |-> <<Path_local, Path_release>>,
     nonlocal_packages_path |-> <<Path_release>>]

\* the packages get_developer_package(working_dir) can load: the one at /w is
\* versioned, the one at /v is not (its version is the empty Version)
DeveloperPackages(working_dir) ==
    {[name |-> IF working_dir = Dir_w THEN <<"P">> ELSE <<"Q">>,
      version |-> IF working_dir = Dir_w THEN <<"1",".","2",".","3">> ELSE <<>>,
      num_variants |-> n,
      config |-> PackageConfig(working_dir)] : n \in 0..MaxVariants}

\* create_release_hooks(names, path): one hook per name
create_release_hooks(names, path) == [i \in DOMAIN names |-> [name |-> names[i], path |-> path]]

\* the variant's requirements: variant.get_requires(build_requires=True,
\* private_build_requires=True), each as str() gives it
get_requires(variant) ==
    IF variant.index = None THEN << <<"b">> >>
    ELSE << <<"b">>, <<"v">> \o IntStr(Get(variant.index)) >>

\* package.iter_variants(): the declared variants in declaration order; a package
\* that declares none yields one variant, whose index is None
iter_variants(package) ==
    IF package.num_variants = 0 THEN << [index |-> None] >>
    ELSE [i \in 1..package.num_variants |-> [index |-> Some(i - 1)]]

-----------------------------------------------------------------------------
(* BuildProcess.__init__ *)

VcsInputs == {None} \cup {Some([path |-> d]) : d \in WorkingDirs}
BuildSystems == {"cmake", "make"}

\* the test with the comparison inverted
VcsMismatchInverted(vcs, working_dir) == vcs # None /\ Get(vcs).path = working_dir

\* "vcs and vcs.path != working_dir"
VcsMismatch(vcs, working_dir) == vcs # None /\ Get(vcs).path # working_dir

\* the constructor with the VCS test moved to its end, after the package is loaded,
\* the hooks are created and the build path is computed
BuildProcessInitCheckLast(working_dir, build_system, vcs, ensure_latest, verbose, package) ==
    LET hook_names == IF package.config.release_hooks # None /\ Get(package.config.release_hooks) # <<>>
                      THEN Get(package.config.release_hooks) ELSE <<>>
    IN  [self |-> [verbose |-> verbose,
                   working_dir |-> working_dir,
                   build_system |-> build_system,
                   vcs |-> vcs,
                   ensure_latest |-> ensure_latest,
                   package |-> Some(package),
                   hooks |-> Some(create_release_hooks(hook_names, working_dir)),
                   build_path |-> Some(PathJoin(working_dir, package.config.build_directory))],
         raised |-> IF VcsMismatch(vcs, working_dir)
                    THEN Raise("BuildProcessError", "mismatched VCS instance")
                    ELSE None,
         events |-> <<Event("get_developer_package", working_dir),
                      Event("create_release_hooks", hook_names)>>]

\* the constructor's result: the object's fields, the exception raised and the
\* collaborators called, for the package that get_developer_package loads
BuildProcessInit(working_dir, build_system, vcs, ensure_latest, verbose, package) ==
    LET self0 == [verbose |-> verbose,
                  working_dir |-> working_dir,
                  build_system |-> build_system,
                  vcs |-> vcs,
                  ensure_latest |-> ensure_latest,
                  package |-> None,
                  hooks |-> None,
                  build_path |-> None]
        hook_names == IF package.config.release_hooks # None /\ Get(package.config.release_hooks) # <<>>
                      THEN Get(package.config.release_hooks) ELSE <<>>
    IN  IF VcsMismatch(vcs, working_dir)
        THEN [self |-> self0,
              raised |-> Raise("BuildProcessError", "mismatched VCS instance"),
              events |-> <<>>]
        ELSE [self |-> [self0 EXCEPT !.package = Some(package),
                                     !.hooks = Some(create_release_hooks(hook_names, working_dir)),
                                     !.build_path = Some(PathJoin(working_dir, package.config.build_directory))],
              raised |-> None,
              events |-> <<Event("get_developer_package", working_dir),
                           Event("create_release_hooks", hook_names)>>]

\* a concrete BuildProcess subclass is instantiated directly, its build_system,
\* vcs and ensure_latest arguments drawn from the given sets
Construct(build_systems, vcss, ensure_latests) ==
    /\ op.name = "start"
    /\ \E working_dir \in WorkingDirs, build_system \in build_systems, vcs \in vcss,
          ensure_latest \in ensure_latests, verbose \in BOOLEAN :
         \E package \in DeveloperPackages(working_dir) :
            \E r \in {BuildProcessInit(working_dir, build_system, vcs, ensure_latest, verbose, package)} :
                /\ proc' = Some(r.self)
                /\ built' = (r.raised = None)
                /\ op' = [name |-> "__init__",
                          args |-> [working_dir |-> working_dir, build_system |-> build_system,
                                    vcs |-> vcs, ensure_latest |-> ensure_latest,
                                    verbose |-> verbose]]
                /\ raised' = r.raised
                /\ ret' = None
                /\ events' = r.events
                /\ stdout' = <<>>
    /\ UNCHANGED <<fs, frame, threads>>

-----------------------------------------------------------------------------
(* create_build_process *)

\* the membership test of line 22 as written: the name is searched in itself
UnknownProcessType(process_type, process_types) == ~StrIn(process_type, process_type)

\* the factory's result for the package that get_developer_package loads
create_build_process(process_type, working_dir, build_system, vcs, ensure_latest, verbose, package) ==
    LET process_types == get_build_process_types
        e1 == <<Event("get_build_process_types", <<>>)>>
    IN  IF UnknownProcessType(process_type, process_types)
        THEN [self |-> None, raised |-> Raise("BuildProcessError", process_type), events |-> e1]
        ELSE LET found == get_plugin_class(process_type)
                 e2 == Append(e1, Event("get_plugin_class", process_type))
             IN  IF found.raised # None
                 THEN [self |-> None, raised |-> found.raised, events |-> e2]
                 ELSE LET r == BuildProcessInit(working_dir, build_system, vcs,
                                                ensure_latest, verbose, package)
                      IN  [self |-> Some(r.self),
                           raised |-> r.raised,
                           events |-> Append(e2, Event("cls", Get(found.cls))) \o r.events]

CreateBuildProcess ==
    /\ op.name = "start"
    /\ \E process_type \in ProcessTypeInputs, working_dir \in WorkingDirs,
          build_system \in BuildSystems, vcs \in VcsInputs,
          ensure_latest \in BOOLEAN, verbose \in BOOLEAN :
         \E package \in DeveloperPackages(working_dir) :
            \E r \in {create_build_process(process_type, working_dir, build_system, vcs,
                                            ensure_latest, verbose, package)} :
                /\ proc' = r.self
                /\ built' = (r.raised = None)
                /\ op' = [name |-> "create_build_process",
                          args |-> [process_type |-> process_type, working_dir |-> working_dir,
                                    build_system |-> build_system, vcs |-> vcs,
                                    ensure_latest |-> ensure_latest, verbose |-> verbose]]
                /\ raised' = r.raised
                /\ ret' = None
                /\ events' = r.events
                /\ stdout' = <<>>
    /\ UNCHANGED <<fs, frame, threads>>

-----------------------------------------------------------------------------
(* BuildProcessHelper: the print helpers and _n_of_m *)

\* the width of the rule _print_header draws around a top-level header
RuleWidth == 80

S_n_of_m == <<"%","d","/","%","d">>
S_skipping == <<"S","k","i","p","p","i","n","g"," ","%","s",".",".",".">>
S_resolving == <<"R","e","s","o","l","v","i","n","g"," ","b","u","i","l","d"," ","e","n","v","i","r","o","n","m","e","n","t",":"," ","%","s">>
S_not_contain == <<"T","h","e"," ","p","a","c","k","a","g","e"," ","d","o","e","s"," ","n","o","t"," ","c","o","n","t","a","i","n"," ","t","h","e"," ","v","a","r","i","a","n","t","s",":"," ","%","s">>
S_build_rxt == <<"b","u","i","l","d",".","r","x","t">>
S_info == <<"i","n","f","o">>

\* _print without the test of self.verbose
_printUngated(self, txt, nargs) == << IF nargs # <<>> THEN Format(txt, nargs) ELSE txt >>

\* the lines _print(txt, *nargs) prints
_print(self, txt, nargs) ==
    IF self.verbose
    THEN << IF nargs # <<>> THEN Format(txt, nargs) ELSE txt >>
    ELSE <<>>

\* the lines _print_header(txt, n) prints
_print_header(self, txt, n) ==
    _print(self, <<>>, <<>>)
    \o IF n <= 1
       THEN _print(self, Repeat("-", RuleWidth), <<>>)
            \o _print(self, txt, <<>>)
            \o _print(self, Repeat("-", RuleWidth), <<>>)
       ELSE _print(self, txt, <<>>)
            \o _print(self, Repeat("-", Len(txt)), <<>>)

\* the declared count taken as it is
MaxFirst(a, b) == a

Max(a, b) == IF a >= b THEN a ELSE b

\* "variant.index or 0"
IndexOrZero(variant) == IF variant.index = None THEN 0 ELSE Get(variant.index)

_n_of_m(self, variant) ==
    LET num_variants == Max(Get(self.package).num_variants, 1)
        index == IndexOrZero(variant) + 1
    IN  Format(S_n_of_m, <<IntStr(index), IntStr(num_variants)>>)

\* _n_of_m is called with a variant the package yields
CallNOfM ==
    /\ built /\ frame = None
    /\ \E variant \in Elems(iter_variants(Get(Get(proc).package))) :
         /\ op' = [name |-> "_n_of_m", args |-> [variant |-> variant]]
         /\ ret' = Some(_n_of_m(Get(proc), variant))
    /\ raised' = None
    /\ events' = <<>>
    /\ stdout' = <<>>
    /\ UNCHANGED <<proc, built, fs, frame, threads>>

\* the texts and arguments the model passes to _print
PrintInputs == {<<S_info, <<>>>>, <<S_skipping, << <<"x">> >> >>}

\* the header levels the model passes to _print_header
HeaderLevels == {1, 2}

\* a _print that turns the process's verbose flag off once it has printed
CallPrintOnce ==
    /\ built /\ frame = None
    /\ \E a \in PrintInputs :
         /\ op' = [name |-> "_print", args |-> [txt |-> a[1], nargs |-> a[2]]]
         /\ stdout' = _print(Get(proc), a[1], a[2])
    /\ proc' = Some([Get(proc) EXCEPT !.verbose = FALSE])
    /\ raised' = None
    /\ ret' = None
    /\ events' = <<>>
    /\ UNCHANGED <<built, fs, frame, threads>>

CallPrint ==
    /\ built /\ frame = None
    /\ \E a \in PrintInputs :
         /\ op' = [name |-> "_print", args |-> [txt |-> a[1], nargs |-> a[2]]]
         /\ stdout' = _print(Get(proc), a[1], a[2])
    /\ raised' = None
    /\ ret' = None
    /\ events' = <<>>
    /\ UNCHANGED <<proc, built, fs, frame, threads>>

CallPrintHeader ==
    /\ built /\ frame = None
    /\ \E txt \in {S_info}, n \in HeaderLevels :
         /\ op' = [name |-> "_print_header", args |-> [txt |-> txt, n |-> n]]
         /\ stdout' = _print_header(Get(proc), txt, n)
    /\ raised' = None
    /\ ret' = None
    /\ events' = <<>>
    /\ UNCHANGED <<proc, built, fs, frame, threads>>

-----------------------------------------------------------------------------
(* BuildProcessHelper.visit_variants *)

\* a test for None alone, which takes the empty list for a request
TruthyNotNone(variants) == variants # None

\* the truth value of the variants argument: None and the empty list are false
Truthy(variants) == variants # None /\ Get(variants) # <<>>

\* a test against the first requested index alone
IndexInFirstOnly(variant, variants) ==
    variant.index # None /\ Get(variant.index) = Get(variants)[1]

\* "variant.index in variants" for a list of integers
IndexIn(variant, variants) ==
    variant.index # None /\ Get(variant.index) \in Elems(Get(variants))

\* set(variants) - set(range(num_variants))
InvalidVariants(self, variants) ==
    Elems(Get(variants)) \ (0..(Get(self.package).num_variants - 1))

\* the per-variant function: it raises on the variants whose index is in
\* func.fails_on and returns a result naming the variant otherwise
FuncResult(variant) == [built |-> variant.index]

\* the loop of lines 135-142 over the variants vs still to come; acc holds results,
\* num_visited, the calls made and the lines printed so far
\* the loop with the function's failure caught: the failing variant is passed
\* over and the loop goes on to the later variants
RECURSIVE VisitLoopSwallowing(_, _, _, _, _)
VisitLoopSwallowing(self, vs, variants, func, acc) ==
    IF vs = <<>>
    THEN [raised |-> None,
          ret |-> Some([num_visited |-> acc.num_visited, results |-> acc.results]),
          events |-> acc.events,
          stdout |-> acc.stdout]
    ELSE IF Truthy(variants) /\ ~IndexIn(Head(vs), variants)
    THEN VisitLoopSwallowing(self, Tail(vs), variants, func,
                             [acc EXCEPT !.events = Append(@, Event("_print_header",
                                                                    Format(S_skipping, <<_n_of_m(self, Head(vs))>>))),
                                         !.stdout = @ \o _print_header(self, Format(S_skipping, <<_n_of_m(self, Head(vs))>>), 1)])
    ELSE IF Head(vs).index \in func.fails_on
    THEN VisitLoopSwallowing(self, Tail(vs), variants, func,
                             [acc EXCEPT !.events = Append(@, Event("func", Head(vs)))])
    ELSE VisitLoopSwallowing(self, Tail(vs), variants, func,
                             [acc EXCEPT !.events = Append(@, Event("func", Head(vs))),
                                         !.results = Append(@, FuncResult(Head(vs))),
                                         !.num_visited = @ + 1])

RECURSIVE VisitLoop(_, _, _, _, _)
VisitLoop(self, vs, variants, func, acc) ==
    IF vs = <<>>
    THEN [raised |-> None,
          ret |-> Some(<<acc.num_visited, acc.results>>),
          events |-> acc.events,
          stdout |-> acc.stdout]
    ELSE LET variant == Head(vs)
         IN  IF Truthy(variants) /\ ~IndexIn(variant, variants)
             THEN LET txt == Format(S_skipping, <<_n_of_m(self, variant)>>)
                  IN  VisitLoop(self, Tail(vs), variants, func,
                                [acc EXCEPT !.events = Append(@, Event("_print_header", txt)),
                                            !.stdout = @ \o _print_header(self, txt, 1)])
             ELSE IF variant.index \in func.fails_on
             THEN [raised |-> Some([kind |-> "FuncError", info |-> variant]),
                   ret |-> None,
                   events |-> Append(acc.events, Event("func", variant)),
                   stdout |-> acc.stdout]
             ELSE VisitLoop(self, Tail(vs), variants, func,
                            [acc EXCEPT !.events = Append(@, Event("func", variant)),
                                        !.results = Append(@, FuncResult(variant)),
                                        !.num_visited = @ + 1])

visit_variants(self, func, variants) ==
    IF Truthy(variants) /\ InvalidVariants(self, variants) # {}
    THEN [raised |-> Raise("BuildError",
                           Format(S_not_contain,
                                  <<StrJoin(<<",", " ">>,
                                            [i \in 1..Cardinality(InvalidVariants(self, variants)) |->
                                                IntStr(Sorted(InvalidVariants(self, variants))[i])])>>)),
          ret |-> None,
          events |-> <<>>,
          stdout |-> <<>>]
    ELSE VisitLoop(self, iter_variants(Get(self.package)), variants, func,
                   [results |-> <<>>, num_visited |-> 0, events |-> <<>>, stdout |-> <<>>])

\* the variants arguments the model passes: None and the lists of up to max_len
\* requested indices, each at most MaxVariants (which no package declares)
RequestLists(max_len) == UNION {[1..k -> 0..MaxVariants] : k \in 0..max_len}
VariantsInputs(max_len) == {None} \cup {Some(l) : l \in RequestLists(max_len)}

\* the per-variant functions the model passes: one that never raises and one that
\* raises on the last variant the package yields
FuncInputs(self) ==
    {[fails_on |-> {}],
     [fails_on |-> {iter_variants(Get(self.package))[Len(iter_variants(Get(self.package)))].index}]}

\* visit_variants is called with a list of at most max_len requested indices
VisitVariants(max_len) ==
    /\ built /\ frame = None
    /\ \E variants \in VariantsInputs(max_len), func \in FuncInputs(Get(proc)) :
         \E r \in {visit_variants(Get(proc), func, variants)} :
             /\ op' = [name |-> "visit_variants", args |-> [func |-> func, variants |-> variants]]
             /\ raised' = r.raised
             /\ ret' = r.ret
             /\ events' = r.events
             /\ stdout' = r.stdout
    /\ UNCHANGED <<proc, built, fs, frame, threads>>

\* the per-variant functions that raise on one variant the package yields, whatever
\* its position, besides the one that never raises and the one that always does
FuncInputsAnywhere(self) ==
    {[fails_on |-> {}],
     [fails_on |-> {iter_variants(Get(self.package))[i].index : i \in DOMAIN iter_variants(Get(self.package))}]}
        \cup {[fails_on |-> {iter_variants(Get(self.package))[i].index}] : i \in DOMAIN iter_variants(Get(self.package))}

\* visit_variants is called with a function that may raise on any variant
VisitVariantsRaising(max_len) ==
    /\ built /\ frame = None
    /\ \E variants \in VariantsInputs(max_len), func \in FuncInputsAnywhere(Get(proc)) :
         \E r \in {visit_variants(Get(proc), func, variants)} :
             /\ op' = [name |-> "visit_variants", args |-> [func |-> func, variants |-> variants]]
             /\ raised' = r.raised
             /\ ret' = r.ret
             /\ events' = r.events
             /\ stdout' = r.stdout
    /\ UNCHANGED <<proc, built, fs, frame, threads>>

-----------------------------------------------------------------------------
(* BuildProcessHelper.get_package_install_path *)

\* the test inverted
VersionedInverted(package) == package.version = <<>>

\* bool(package.version): the empty Version is false
Versioned(package) == package.version # <<>>

get_package_install_path(self, path) ==
    LET path_ == PathJoin(path, Get(self.package).name)
    IN  IF Versioned(Get(self.package))
        THEN PathJoin(path_, Get(self.package).version)
        ELSE path_

\* the install roots the model passes
InstallRoots == {<<"/","r">>, <<"/","r","/">>, <<"r">>, <<>>, <<"/">>, <<"/","r","/","s">>}

GetPackageInstallPath ==
    /\ built /\ frame = None
    /\ \E path \in InstallRoots :
         /\ op' = [name |-> "get_package_install_path", args |-> [path |-> path]]
         /\ ret' = Some(get_package_install_path(Get(proc), path))
    /\ raised' = None
    /\ events' = <<>>
    /\ stdout' = <<>>
    /\ UNCHANGED <<proc, built, fs, frame, threads>>

-----------------------------------------------------------------------------
(* BuildProcessHelper.create_build_context *)

BuildTypes == {"local", "central"}

\* the statuses a finished resolve can have (ResolverStatus)
ResolverStatuses == {"solved", "failed", "aborted"}

\* the two branches exchanged
PackagesPathSwapped(self, build_type) ==
    IF build_type = "local"
    THEN Get(self.package).config.nonlocal_packages_path
    ELSE Get(self.package).config.packages_path

\* lines 161-164: the search paths the build type selects
PackagesPath(self, build_type) ==
    IF build_type = "local"
    THEN Get(self.package).config.packages_path
    ELSE Get(self.package).config.nonlocal_packages_path

\* ResolvedContext(request, package_paths=..., building=...): the context of a
\* resolve that ended with the given status
ResolvedContext(request, package_paths, building, status) ==
    [request |-> request, package_paths |-> package_paths, building |-> building,
     status |-> status]

\* context.save(path)
SaveContext(files, path, context) == (path :> context) @@ files

\* the build_path arguments the model passes: the process's own build path and its
\* sub-directories of the given names
BuildPathInputs(self, subdirs) ==
    {Get(self.build_path)} \cup {PathJoin(Get(self.build_path), d) : d \in subdirs}

\* lines 156-170: the request is printed and resolved; the resolver ends with
\* some status
CbcResolveIn(subdirs, build_types) ==
    /\ built /\ frame = None
    /\ \E variant \in Elems(iter_variants(Get(Get(proc).package))),
          build_type \in build_types, status \in ResolverStatuses,
          build_path \in BuildPathInputs(Get(proc), subdirs) :
         LET self == Get(proc)
             request == get_requires(variant)
             requests_str == StrJoin(<<" ">>, request)
             context == ResolvedContext(request, PackagesPath(self, build_type), TRUE, status)
         IN  /\ op' = [name |-> "create_build_context",
                       args |-> [variant |-> variant, build_type |-> build_type,
                                 build_path |-> build_path]]
             /\ stdout' = _print(self, S_resolving, <<requests_str>>)
                          \o (IF self.verbose THEN <<S_info>> ELSE <<>>)
             /\ events' = <<Event("ResolvedContext",
                                  [request |-> request,
                                   package_paths |-> PackagesPath(self, build_type),
                                   building |-> TRUE,
                                   result |-> context])>>
                          \o (IF self.verbose THEN <<Event("print_info", context)>> ELSE <<>>)
             /\ frame' = Some([build_path |-> build_path, context |-> context,
                               rxt_filepath |-> None, stmt |-> 1])
    /\ raised' = None
    /\ ret' = None
    /\ UNCHANGED <<proc, built, fs, threads>>

\* create_build_context is called with the process's own build path
CbcResolve == CbcResolveIn({}, BuildTypes)

\* the file name alone, build_path left out
RxtFilepathBare(build_path) == S_build_rxt

\* line 173: rxt_filepath
RxtFilepath(build_path) == PathJoin(build_path, S_build_rxt)

\* the status examined before the context is saved
CbcStatementsSwapped == <<"check", "save">>

\* lines 172-178 in program order: the context is saved, then its status is examined
CbcStatements == <<"save", "check">>

\* lines 173-174; the save opens the file for writing, which empties a file that
\* is already there
CbcSave ==
    /\ frame # None
    /\ Get(frame).stmt <= Len(CbcStatements)
    /\ CbcStatements[Get(frame).stmt] = "save"
    /\ \E rxt_filepath \in {RxtFilepath(Get(frame).build_path)} :
         /\ fs' = SaveContext(fs, rxt_filepath, Get(frame).context)
         /\ events' = events \o <<Event("save", rxt_filepath),
                                   Event("open", [path |-> rxt_filepath, mode |-> "w",
                                                  existed |-> rxt_filepath \in DOMAIN fs])>>
         /\ frame' = Some([Get(frame) EXCEPT !.rxt_filepath = Some(rxt_filepath), !.stmt = @ + 1])
    /\ UNCHANGED <<proc, built, op, raised, ret, stdout, threads>>

\* a test for the status failed alone, which lets an aborted resolve through
UnsolvedOnlyFailed(context) == context.status = "failed"

\* "context.status != ResolverStatus.solved"
Unsolved(context) == context.status # "solved"

\* lines 176-177
CbcCheck ==
    /\ frame # None
    /\ Get(frame).stmt <= Len(CbcStatements)
    /\ CbcStatements[Get(frame).stmt] = "check"
    /\ IF Unsolved(Get(frame).context)
       THEN /\ raised' = Raise("BuildContextResolveError", Get(frame).context)
            /\ frame' = None
       ELSE /\ raised' = None
            /\ frame' = Some([Get(frame) EXCEPT !.stmt = @ + 1])
    /\ UNCHANGED <<proc, built, op, ret, events, stdout, fs, threads>>

\* line 178
CbcReturn ==
    /\ frame # None
    /\ Get(frame).stmt > Len(CbcStatements)
    /\ ret' = Some(<<Get(frame).context, Get(Get(frame).rxt_filepath)>>)
    /\ frame' = None
    /\ UNCHANGED <<proc, built, op, raised, events, stdout, fs, threads>>

-----------------------------------------------------------------------------
(* create_build_context called from two worker threads, one call each *)

Threads == {"t1", "t2"}

\* the build_path arguments a worker passes for its variant: the process's build
\* path, the same with a trailing separator, and its sub-directory named after
\* the variant's index
ThreadBuildPaths(self, variant) ==
    {Get(self.build_path),
     Get(self.build_path) \o <<"/">>,
     PathJoin(Get(self.build_path), IntStr(IndexOrZero(variant)))}

\* the statement after the last: the call has returned
CbcReturnStmt == Len(CbcStatements) + 1

\* lines 156-170 in thread t
ThreadResolve(t) ==
    /\ built /\ threads[t] = None
    /\ \E variant \in Elems(iter_variants(Get(Get(proc).package))), status \in ResolverStatuses :
         \E build_path \in ThreadBuildPaths(Get(proc), variant) :
             LET self == Get(proc)
                 request == get_requires(variant)
                 context == ResolvedContext(request, PackagesPath(self, "local"), TRUE, status)
             IN  threads' = [threads EXCEPT ![t] =
                                Some([variant |-> variant, build_path |-> build_path,
                                      context |-> context, rxt_filepath |-> None, stmt |-> 1,
                                      raised |-> None, ret |-> None, ended |-> FALSE,
                                      stdout |-> _print(self, S_resolving, <<StrJoin(<<" ">>, request)>>)
                                                 \o (IF self.verbose THEN <<S_info>> ELSE <<>>)])]
    /\ UNCHANGED <<proc, built, op, raised, ret, events, stdout, fs, frame>>

\* lines 173-174 in thread t
ThreadSave(t) ==
    /\ threads[t] # None /\ ~Get(threads[t]).ended
    /\ Get(threads[t]).stmt <= Len(CbcStatements)
    /\ CbcStatements[Get(threads[t]).stmt] = "save"
    /\ \E rxt_filepath \in {RxtFilepath(Get(threads[t]).build_path)} :
         /\ fs' = SaveContext(fs, rxt_filepath, Get(threads[t]).context)
         /\ threads' = [threads EXCEPT ![t] = Some([Get(@) EXCEPT !.rxt_filepath = Some(rxt_filepath),
                                                                  !.stmt = @ + 1])]
    /\ UNCHANGED <<proc, built, op, raised, ret, events, stdout, frame>>

\* lines 176-177 in thread t
ThreadCheck(t) ==
    /\ threads[t] # None /\ ~Get(threads[t]).ended
    /\ Get(threads[t]).stmt <= Len(CbcStatements)
    /\ CbcStatements[Get(threads[t]).stmt] = "check"
    /\ threads' = [threads EXCEPT ![t] =
                      IF Unsolved(Get(@).context)
                      THEN Some([Get(@) EXCEPT !.raised = Raise("BuildContextResolveError", Get(threads[t]).context),
                                               !.ended = TRUE])
                      ELSE Some([Get(@) EXCEPT !.stmt = @ + 1])]
    /\ UNCHANGED <<proc, built, op, raised, ret, events, stdout, fs, frame>>

\* line 178 in thread t
ThreadReturn(t) ==
    /\ threads[t] # None /\ ~Get(threads[t]).ended
    /\ Get(threads[t]).stmt = CbcReturnStmt
    /\ threads' = [threads EXCEPT ![t] =
                      Some([Get(@) EXCEPT !.ret = Some(<<Get(threads[t]).context,
                                                         Get(Get(threads[t]).rxt_filepath)>>),
                                          !.ended = TRUE])]
    /\ UNCHANGED <<proc, built, op, raised, ret, events, stdout, fs, frame>>

-----------------------------------------------------------------------------

Init ==
    /\ proc = None
    /\ built = FALSE
    /\ op = [name |-> "start", args |-> <<>>]
    /\ raised = None
    /\ ret = None
    /\ events = <<>>
    /\ stdout = <<>>
    /\ fs = <<>>
    /\ frame = None
    /\ threads = [t \in Threads |-> None]

\* the helper operations on one process built with default arguments, with full
\* variant requests
Next ==
    \/ Construct({"cmake"}, {None}, {TRUE})
    \/ CallPrint
    \/ CallPrintHeader
    \/ CallNOfM
    \/ VisitVariants(MaxRequested)
    \/ GetPackageInstallPath

Spec == Init /\ [][Next]_vars

\* construction alone, through the constructor and through the factory, with every
\* combination of arguments
NextInit ==
    \/ Construct(BuildSystems, VcsInputs, BOOLEAN)
    \/ CreateBuildProcess

SpecInit == Init /\ [][NextInit]_vars

\* every helper operation, create_build_context included, with requests of at most
\* one index
NextContext ==
    \/ Construct({"cmake"}, {None}, {TRUE})
    \/ CallPrint
    \/ CallPrintHeader
    \/ CallNOfM
    \/ VisitVariants(1)
    \/ GetPackageInstallPath
    \/ CbcResolve
    \/ CbcSave
    \/ CbcCheck
    \/ CbcReturn

SpecContext == Init /\ [][NextContext]_vars

\* create_build_context alone, called again and again with the process's build
\* path or one sub-directory of it
NextSnapshot ==
    \/ Construct({"cmake"}, {None}, {TRUE})
    \/ CbcResolveIn({<<"a">>}, {"local"})
    \/ CbcSave
    \/ CbcCheck
    \/ CbcReturn

SpecSnapshot == Init /\ [][NextSnapshot]_vars

\* two worker threads of one process, each calling create_build_context once,
\* their statements interleaved
NextConcurrent ==
    \/ Construct({"cmake"}, {None}, {TRUE})
    \/ \E t \in Threads : ThreadResolve(t)
    \/ \E t \in Threads : ThreadSave(t)
    \/ \E t \in Threads : ThreadCheck(t)
    \/ \E t \in Threads : ThreadReturn(t)

SpecConcurrent == Init /\ [][NextConcurrent]_vars

\* visit_variants alone, with per-variant functions that raise at any position
NextRaising ==
    \/ Construct({"cmake"}, {None}, {TRUE})
    \/ VisitVariantsRaising(2)

SpecRaising == Init /\ [][NextRaising]_vars

-----------------------------------------------------------------------------
(* Properties *)

\* the kind of the exception the most recent call raised, "" if it raised none
RaisedKind == IF raised = None THEN "" ELSE Get(raised).kind

\* the arguments of the calls of a collaborator in the most recent call
ArgsOf(name) == [i \in DOMAIN CallsOf(events, name) |-> CallsOf(events, name)[i].arg]

\* C1: create_build_process given a process_type that is not one of the registered
\* names raises BuildProcessError, and it does so before the plugin class is
\* looked up and before any BuildProcess is constructed.
C1_UnknownTypeRejected ==
    (op.name = "create_build_process" /\ op.args.process_type \notin get_build_process_types)
        => /\ RaisedKind = "BuildProcessError"
           /\ ArgsOf("get_plugin_class") = <<>>
           /\ ArgsOf("cls") = <<>>
           /\ proc = None

\* the requested indices of the most recent visit_variants call that the package
\* does not declare
RequestedInvalid ==
    Elems(Get(op.args.variants)) \ {Get(v.index) : v \in {w \in Elems(iter_variants(Get(Get(proc).package))) : w.index # None}}

\* a visit_variants call that requested at least one index the package lacks
InvalidRequest ==
    /\ op.name = "visit_variants"
    /\ op.args.variants # None
    /\ RequestedInvalid # {}

\* C2: a visit_variants call whose requested indices include one the package does
\* not declare raises BuildError with a message listing exactly the invalid
\* indices in ascending order without duplicates, and calls the per-variant
\* function on no variant.
C2_InvalidIndicesReported ==
    InvalidRequest
        => /\ RaisedKind = "BuildError"
           /\ Get(raised).info =
                Format(S_not_contain,
                       <<StrJoin(<<",", " ">>,
                                 [i \in 1..Cardinality(RequestedInvalid) |->
                                     IntStr(Sorted(RequestedInvalid)[i])])>>)
           /\ ArgsOf("func") = <<>>

\* what does hold of such a call: it raises, returns nothing and calls the function
\* on no variant, but the exception is a NameError for the unbound name BuildError
C2_InvalidRequestRaisesNameError ==
    InvalidRequest
        => /\ RaisedKind = "NameError"
           /\ Get(raised).info = "BuildError"
           /\ ret = None
           /\ ArgsOf("func") = <<>>

\* the file create_build_context writes for a build path
RxtPath(build_path) == build_path \o <<"/">> \o S_build_rxt

\* C3: whenever create_build_context raises the resolve failure, the context it
\* raises with has already been saved to <build_path>/build.rxt: the file holds
\* that context in the state the raise starts from.
C3_SavedBeforeRaise ==
    [][(frame # None /\ raised' # None /\ raised' # raised)
          => /\ Get(raised').kind = "BuildContextResolveError"
             /\ RxtPath(op.args.build_path) \in DOMAIN fs
             /\ fs[RxtPath(op.args.build_path)] = Get(raised').info
             /\ ArgsOf("save") = <<RxtPath(op.args.build_path)>>]_vars

\* a resolve failure has been raised and its context is in build.rxt
C3_Witness ==
    /\ op.name = "create_build_context"
    /\ RaisedKind = "BuildContextResolveError"
    /\ Get(raised).info.status = "failed"
    /\ fs[RxtPath(op.args.build_path)] = Get(raised).info

\* the most recent call ran BuildProcess.__init__
ConstructorCalled == op.name = "__init__" \/ (op.name = "create_build_process" /\ ArgsOf("cls") # <<>>)

\* C4: a constructor call with a VCS whose path differs from working_dir raises
\* BuildProcessError and yields no object, whatever build_system, ensure_latest
\* and verbose are; every constructed BuildProcess has no VCS or one whose path
\* is its working_dir.
C4_MismatchedVcsRejected ==
    /\ (ConstructorCalled /\ op.args.vcs # None /\ Get(op.args.vcs).path # op.args.working_dir)
          => (~built /\ RaisedKind = "BuildProcessError")
    /\ built => (Get(proc).vcs = None \/ Get(Get(proc).vcs).path = Get(proc).working_dir)

\* a constructor call with a mismatched VCS and non-default other arguments failed
C4_Witness ==
    /\ op.name = "__init__"
    /\ op.args.vcs = Some([path |-> Dir_v])
    /\ op.args.working_dir = Dir_w
    /\ op.args.build_system = "make"
    /\ ~op.args.ensure_latest
    /\ op.args.verbose
    /\ ~built
    /\ RaisedKind = "BuildProcessError"

\* the variants the package of the process yields, in declaration order
Declared == iter_variants(Get(Get(proc).package))

\* the variant's index is one of those the most recent visit_variants call requested
Requested(v) ==
    /\ v.index # None
    /\ \E i \in DOMAIN Get(op.args.variants) : Get(op.args.variants)[i] = Get(v.index)

NotRequested(v) == ~Requested(v)

\* the per-variant function of the most recent visit_variants call raises on v
FuncRaisesOn(v) == v.index \in op.args.func.fails_on

\* the header that reports the variant as skipped
SkipText(v) ==
    <<"S","k","i","p","p","i","n","g"," ">> \o IntStr(Get(v.index) + 1) \o <<"/">>
        \o IntStr(Get(Get(proc).package).num_variants) \o <<".", ".", ".">>

\* C5: a visit_variants call with a non-empty list of requested indices, all of them
\* declared, calls the per-variant function exactly once on each requested
\* variant and on no other, in declaration order; it reports every other variant
\* as skipped (a "Skipping i/n..." header, printed when verbose); and it returns
\* num_visited equal to the length of results and to the number of distinct
\* requested indices.  (The function raising on no requested variant.)
C5_ValidRequestSelects ==
    (/\ op.name = "visit_variants"
     /\ op.args.variants # None
     /\ Get(op.args.variants) # <<>>
     /\ RequestedInvalid = {}
     /\ \A v \in Elems(Declared) : Requested(v) => ~FuncRaisesOn(v))
        => /\ raised = None
           /\ ArgsOf("func") = SelectSeq(Declared, Requested)
           /\ ArgsOf("_print_header") =
                [i \in DOMAIN SelectSeq(Declared, NotRequested) |->
                    SkipText(SelectSeq(Declared, NotRequested)[i])]
           /\ Get(proc).verbose
                => \A v \in Elems(SelectSeq(Declared, NotRequested)) :
                      \E i \in DOMAIN stdout : stdout[i] = SkipText(v)
           /\ ret # None
           /\ Get(ret)[1] = Len(Get(ret)[2])
           /\ Get(ret)[1] = Cardinality(Elems(Get(op.args.variants)))
           /\ Get(ret)[2] = [i \in DOMAIN SelectSeq(Declared, Requested) |->
                                [built |-> SelectSeq(Declared, Requested)[i].index]]

\* 3 variants and the request [2, 0]: 0 and 2 were processed in that order, 1 was
\* reported as skipped
C5_Witness ==
    /\ op.name = "visit_variants"
    /\ op.args.variants = Some(<<2, 0>>)
    /\ Get(Get(proc).package).num_variants = 3
    /\ Get(proc).verbose
    /\ ArgsOf("func") = <<[index |-> Some(0)], [index |-> Some(2)]>>
    /\ ArgsOf("_print_header") = <<<<"S","k","i","p","p","i","n","g"," ","2","/","3",".",".",".">>>>
    /\ ret = Some(<<2, <<[built |-> Some(0)], [built |-> Some(2)]>> >>)

\* C6: a visit_variants call whose variants argument is None or empty calls the
\* per-variant function exactly once on every variant the package yields, in
\* declaration order, skips none and raises no variant-not-found error; a package
\* that declares no variants yields one variant with no index, which is visited.
\* (The function raising on no variant.)
C6_NoRequestVisitsAll ==
    (/\ op.name = "visit_variants"
     /\ (op.args.variants = None \/ op.args.variants = Some(<<>>)))
        => /\ RaisedKind \in {"", "FuncError"}
           /\ ArgsOf("_print_header") = <<>>
           /\ (\A v \in Elems(Declared) : ~FuncRaisesOn(v))
                => /\ raised = None
                   /\ ArgsOf("func") = Declared
                   /\ ret = Some(<<Len(Declared),
                                   [i \in DOMAIN Declared |-> [built |-> Declared[i].index]]>>)
                   /\ Len(Declared) = IF Get(Get(proc).package).num_variants = 0
                                      THEN 1 ELSE Get(Get(proc).package).num_variants

\* a package with no declared variants and an empty request: its one variant, with
\* no index, was visited
C6_Witness ==
    /\ op.name = "visit_variants"
    /\ op.args.variants = Some(<<>>)
    /\ Get(Get(proc).package).num_variants = 0
    /\ ArgsOf("func") = <<[index |-> None]>>
    /\ ret = Some(<<1, <<[built |-> None]>> >>)

\* a create_build_context call has ended, by return or by raise
CbcEnded == op.name = "create_build_context" /\ frame = None

\* the context the resolver returned in the most recent create_build_context call
Resolved == ArgsOf("ResolvedContext")[1].result

\* C7: create_build_context raises the resolve failure, carrying the context, if
\* and only if the context's status is not solved; when it is solved the call
\* raises nothing and returns (context, <build_path>/build.rxt).
C7_RaisesIffUnsolved ==
    CbcEnded
        => /\ (raised # None) <=> (Resolved.status # "solved")
           /\ raised # None
                => /\ Get(raised) = [kind |-> "BuildContextResolveError", info |-> Resolved]
                   /\ ret = None
           /\ raised = None
                => ret = Some(<<Resolved, RxtPath(op.args.build_path)>>)

\* a resolve that was aborted raised the resolve failure with its context
C7_Witness ==
    /\ CbcEnded
    /\ Resolved.status = "aborted"
    /\ raised = Some([kind |-> "BuildContextResolveError", info |-> Resolved])

\* C8: create_build_context resolves with config.packages_path exactly when
\* build_type is local and with config.nonlocal_packages_path exactly when it is
\* central, and always with building=True.
C8_SearchPathsByBuildType ==
    op.name = "create_build_context"
        => /\ Len(ArgsOf("ResolvedContext")) = 1
           /\ ArgsOf("ResolvedContext")[1].building = TRUE
           /\ (ArgsOf("ResolvedContext")[1].package_paths = Get(Get(proc).package).config.packages_path)
                <=> (op.args.build_type = "local")
           /\ (ArgsOf("ResolvedContext")[1].package_paths = Get(Get(proc).package).config.nonlocal_packages_path)
                <=> (op.args.build_type = "central")

\* a central build resolved with the remote-only search paths
C8_Witness ==
    /\ op.name = "create_build_context"
    /\ op.args.build_type = "central"
    /\ ArgsOf("ResolvedContext")[1].package_paths = <<Path_release>>

\* the non-empty components of a path
RECURSIVE Components(_)
Components(p) ==
    IF p = <<>> THEN <<>>
    ELSE IF \E i \in DOMAIN p : p[i] = "/"
    THEN LET k == CHOOSE i \in DOMAIN p : p[i] = "/" /\ \A j \in 1..(i - 1) : p[j] # "/"
         IN  (IF k = 1 THEN <<>> ELSE <<SubSeq(p, 1, k - 1)>>)
             \o Components(SubSeq(p, k + 1, Len(p)))
    ELSE <<p>>

\* C9: get_package_install_path(root) returns the path root/name/version for a
\* versioned package and root/name for an unversioned one, the same for the same
\* root and package on every call; for P@1.2.3 under /r it is /r/P/1.2.3.
C9_InstallPath ==
    op.name = "get_package_install_path"
        => /\ raised = None
           /\ ret # None
           /\ Components(Get(ret)) =
                Components(op.args.path) \o <<Get(Get(proc).package).name>>
                    \o (IF Get(Get(proc).package).version # <<>>
                        THEN <<Get(Get(proc).package).version>> ELSE <<>>)
           /\ StartsWith(Get(ret), <<"/">>) <=> StartsWith(op.args.path, <<"/">>)
           /\ (op.args.path # <<>> /\ ~EndsWith(op.args.path, <<"/">>))
                => Get(ret) = op.args.path \o <<"/">> \o Get(Get(proc).package).name
                                \o (IF Get(Get(proc).package).version # <<>>
                                    THEN <<"/">> \o Get(Get(proc).package).version ELSE <<>>)
           /\ (op.args.path = <<"/", "r">> /\ Get(Get(proc).package).name = <<"P">>
                 /\ Get(Get(proc).package).version = <<"1", ".", "2", ".", "3">>)
                => Get(ret) = <<"/","r","/","P","/","1",".","2",".","3">>

\* the install path of the unversioned package Q under /r/ is /r/Q
C9_Witness ==
    /\ op.name = "get_package_install_path"
    /\ op.args.path = <<"/", "r", "/">>
    /\ Get(Get(proc).package).version = <<>>
    /\ ret = Some(<<"/", "r", "/", "Q">>)

\* C10: a process built with verbose false prints nothing: no call of
\* visit_variants (skip reports included), create_build_context, _print or
\* _print_header writes a line.
C10_QuietWhenNotVerbose ==
    (built /\ ~Get(proc).verbose) => stdout = <<>>

\* a quiet process skipped a variant in visit_variants and printed nothing
C10_Witness ==
    /\ built
    /\ ~Get(proc).verbose
    /\ op.name = "visit_variants"
    /\ ArgsOf("_print_header") # <<>>
    /\ stdout = <<>>

\* C11: when the VCS path differs from working_dir the constructor raises the
\* configuration mismatch before any other construction work: at the raise the
\* package has not been loaded, no release hooks have been created and no build
\* path has been computed.
C11_MismatchRaisedFirst ==
    (ConstructorCalled /\ op.args.vcs # None /\ Get(op.args.vcs).path # op.args.working_dir)
        => /\ RaisedKind = "BuildProcessError"
           /\ ArgsOf("get_developer_package") = <<>>
           /\ ArgsOf("create_release_hooks") = <<>>
           /\ proc # None
           /\ Get(proc).package = None
           /\ Get(proc).hooks = None
           /\ Get(proc).build_path = None

\* the factory looked up the class and called the constructor, which raised the
\* mismatch with nothing loaded
C11_Witness ==
    /\ op.name = "create_build_process"
    /\ op.args.vcs = Some([path |-> Dir_w])
    /\ op.args.working_dir = Dir_v
    /\ ArgsOf("cls") = <<S_local>>
    /\ RaisedKind = "BuildProcessError"
    /\ ArgsOf("get_developer_package") = <<>>
    /\ Get(proc).package = None

\* the variant is one the most recent visit_variants call selects: every variant
\* when nothing is requested, the requested ones otherwise
Selected(v) ==
    IF op.args.variants = None \/ Get(op.args.variants) = <<>> THEN TRUE ELSE Requested(v)

\* the selected variants, in declaration order
SelectedVariants == SelectSeq(Declared, Selected)

\* the position, among the selected variants, of the first the function raises on
FirstFailing ==
    CHOOSE k \in DOMAIN SelectedVariants :
        /\ FuncRaisesOn(SelectedVariants[k])
        /\ \A j \in 1..(k - 1) : ~FuncRaisesOn(SelectedVariants[j])

\* C12: when the per-variant function raises for a selected variant, visit_variants
\* raises that same failure, returns nothing, and has called the function once on
\* each selected variant up to and including the failing one, in declaration
\* order, and on no later variant.
C12_FuncFailurePropagates ==
    (/\ op.name = "visit_variants"
     /\ ~InvalidRequest
     /\ \E k \in DOMAIN SelectedVariants : FuncRaisesOn(SelectedVariants[k]))
        => /\ raised = Some([kind |-> "FuncError", info |-> SelectedVariants[FirstFailing]])
           /\ ret = None
           /\ ArgsOf("func") = SubSeq(SelectedVariants, 1, FirstFailing)

\* the function raised on the second of three selected variants: the first was
\* processed, the third never reached
C12_Witness ==
    /\ op.name = "visit_variants"
    /\ op.args.variants = None
    /\ Len(Declared) = 3
    /\ op.args.func.fails_on = {Some(1)}
    /\ RaisedKind = "FuncError"
    /\ Len(ArgsOf("func")) = 2

\* C13: <build_path>/build.rxt holds the context of the most recent
\* create_build_context call made with that build_path: the only steps that
\* change the files are the saves, each save replaces whatever the file held by
\* the context of its call and touches no other file, and a call that has ended,
\* by a return or by the resolve failure, leaves its own context in the file.
C13_LatestSnapshotOnDisk ==
    [][/\ (fs' # fs)
            => /\ frame # None /\ Get(frame).rxt_filepath = None
               /\ DOMAIN fs' = DOMAIN fs \cup {RxtPath(op.args.build_path)}
               /\ fs'[RxtPath(op.args.build_path)] = Resolved
               /\ \A p \in DOMAIN fs \ {RxtPath(op.args.build_path)} : fs'[p] = fs[p]
       /\ CbcEnded'
            => /\ RxtPath(op'.args.build_path) \in DOMAIN fs'
               /\ fs'[RxtPath(op'.args.build_path)] = Resolved'
               /\ ArgsOf("save")' = <<RxtPath(op'.args.build_path)>>
      ]_vars

\* a failed attempt for the second variant ended: its save replaced an earlier
\* snapshot in the process's build path, its context is the one on disk, and the
\* snapshot in the sub-directory is a different one
C13_Witness ==
    /\ CbcEnded
    /\ RaisedKind = "BuildContextResolveError"
    /\ op.args.variant.index = Some(1)
    /\ op.args.build_path = Get(Get(proc).build_path)
    /\ \E i \in DOMAIN ArgsOf("open") : ArgsOf("open")[i].existed
    /\ fs[RxtPath(op.args.build_path)] = Resolved
    /\ RxtPath(op.args.build_path \o <<"/", "a">>) \in DOMAIN fs
    /\ fs[RxtPath(op.args.build_path \o <<"/", "a">>)] # Resolved

\* thread t has saved its context
Saved(t) == threads[t] # None /\ Get(threads[t]).rxt_filepath # None

\* thread t is inside its call
Running(t) == threads[t] # None /\ ~Get(threads[t]).ended

\* C14 as stated: two threads inside create_build_context for different variants
\* never have the same snapshot file path.
C14_SnapshotPathPerVariant ==
    \A t, u \in Threads :
        (/\ t # u /\ Running(t) /\ Running(u)
         /\ Get(threads[t]).variant # Get(threads[u]).variant)
            => RxtFilepath(Get(threads[t]).build_path) # RxtFilepath(Get(threads[u]).build_path)

\* C14 amended: the snapshot path is a function of the build_path argument alone,
\* not of the variant. Two threads write the same file exactly when their
\* build_path arguments name the same directory; a file written by one thread
\* alone holds that thread's context, a file written by both holds the context
\* of one of them.
C14_SamePathIffSameDirectory ==
    \A t, u \in Threads :
        (t # u /\ Saved(t) /\ Saved(u))
            => /\ (Get(threads[t]).rxt_filepath = Get(threads[u]).rxt_filepath)
                    <=> (Components(Get(threads[t]).build_path) = Components(Get(threads[u]).build_path))
               /\ Components(Get(Get(threads[t]).rxt_filepath))
                    = Components(Get(threads[t]).build_path) \o <<S_build_rxt>>
               /\ Get(Get(threads[t]).rxt_filepath) \in DOMAIN fs
               /\ fs[Get(Get(threads[t]).rxt_filepath)]
                    \in (IF Get(threads[t]).rxt_filepath = Get(threads[u]).rxt_filepath
                         THEN {Get(threads[t]).context, Get(threads[u]).context}
                         ELSE {Get(threads[t]).context})

\* two threads, given the process's build path for different variants, have both
\* saved: they wrote one file, and the context of the first is no longer on disk
C14_Witness ==
    /\ Saved("t1") /\ Saved("t2")
    /\ Get(threads["t1"]).variant # Get(threads["t2"]).variant
    /\ Get(threads["t1"]).build_path = Get(Get(proc).build_path)
    /\ Get(threads["t2"]).build_path = Get(Get(proc).build_path)
    /\ Get(threads["t1"]).rxt_filepath = Get(threads["t2"]).rxt_filepath
    /\ Running("t1") /\ Running("t2")
    /\ fs[Get(Get(threads["t1"]).rxt_filepath)] = Get(threads["t2"]).context
    /\ Get(threads["t1"]).context # Get(threads["t2"]).context

\* the position of the variant among those the package yields
PositionOf(variant) == CHOOSE i \in DOMAIN Declared : Declared[i] = variant

\* the number of variants the package declares
DeclaredCount == Get(Get(proc).package).num_variants

\* C15: for a variant the package yields, _n_of_m returns "i/n" where n is the
\* declared variant count or 1 if that is less, and i is the variant's position
\* in declaration order, so 1 <= i <= n and no other variant of the package gets
\* the same string; with zero or one declared variant the string is "1/1".
C15_PositionOfCount ==
    op.name = "_n_of_m"
        => /\ raised = None
           /\ \E i \in 1..(IF DeclaredCount > 1 THEN DeclaredCount ELSE 1) :
                /\ i = PositionOf(op.args.variant)
                /\ ret = Some(IntStr(i) \o <<"/">> \o IntStr(IF DeclaredCount > 1 THEN DeclaredCount ELSE 1))
           /\ \A j \in DOMAIN Declared :
                Declared[j] # op.args.variant => _n_of_m(Get(proc), Declared[j]) # Get(ret)
           /\ DeclaredCount <= 1 => ret = Some(<<"1", "/", "1">>)

\* the variant without an index of a package that declares none is at "1/1"
C15_Witness ==
    /\ op.name = "_n_of_m"
    /\ DeclaredCount = 0
    /\ op.args.variant.index = None
    /\ ret = Some(<<"1", "/", "1">>)

\* C16: once the process is constructed, no step of a helper operation
\* (visit_variants, get_package_install_path, create_build_context, _n_of_m,
\* _print, _print_header), returning or raising, changes its package,
\* working_dir, build_path, hooks, vcs, build_system, ensure_latest or verbose;
\* the process stays constructed.
C16_StateReadOnly ==
    [][built
         => /\ built'
            /\ proc' # None
            /\ Get(proc').package = Get(proc).package
            /\ Get(proc').working_dir = Get(proc).working_dir
            /\ Get(proc').build_path = Get(proc).build_path
            /\ Get(proc').hooks = Get(proc).hooks
            /\ Get(proc').vcs = Get(proc).vcs
            /\ Get(proc').build_system = Get(proc).build_system
            /\ Get(proc').ensure_latest = Get(proc).ensure_latest
            /\ Get(proc').verbose = Get(proc).verbose
            /\ DOMAIN Get(proc') = DOMAIN Get(proc)
      ]_vars

\* a create_build_context call has failed after printing and saving, and the
\* process still has what its construction gave it
C16_Witness ==
    /\ built
    /\ CbcEnded
    /\ RaisedKind = "BuildContextResolveError"
    /\ stdout # <<>>
    /\ Get(proc).verbose
    /\ Get(proc).working_dir = Dir_w
    /\ Get(proc).build_path = Some(Dir_w \o <<"/">> \o S_build)
    /\ Get(proc).package # None
    /\ Get(proc).hooks # None
    /\ Get(proc).vcs = None
    /\ Get(proc).build_system = "cmake"
    /\ Get(proc).ensure_latest

=============================================================================
